---- MODULE Spec2Model ----
(***************************************************************************)
(* Model of distlock (src/main.go): an in-memory table of lockable values, *)
(* a session registry, one expiry timer per lease, all guarded by one      *)
(* sync.RWMutex.  Every HTTP handler and the timer callback is one action: *)
(* each runs under the guard from its Lock/RLock to its Unlock/RUnlock, so *)
(* no other step can observe it half-way.  A handler that returns or       *)
(* panics without unlocking leaves the guard held in the next state.       *)
(* Real time is abstracted: an armed timer may fire at any moment.         *)
(***************************************************************************)
EXTENDS Integers, Sequences, FiniteSets, TLC

\* ---- bounds ----
MaxIds == 3
MaxTimers == 3

\* ---- inputs ----
Keys == {<<"a">>, <<"a", "b">>}
Prefixes == {<<>>, <<"a">>, <<"a", "b">>}
Values == {"v", "w"}
Durations == {<<"7">>, <<"1", "x">>}
NoSessionId == 0
NoKey == <<>>

VARIABLES kvs, sessions, timers, nTimers, kvLock, cuid, released, ret

vars == <<kvs, sessions, timers, nTimers, kvLock, cuid, released, ret>>

\* Session ids a client can present: every id generated so far, and one
\* (cuid itself) that no acquire has returned yet.
SessionIds == 1..cuid

\* ---- strconv.ParseInt(duration, 10, 64) ----
Digits == <<"0", "1", "2", "3", "4", "5", "6", "7", "8", "9">>

IsDigit(c) == \E i \in 1..10 : Digits[i] = c

DigitVal(c) == (CHOOSE i \in 1..10 : Digits[i] = c) - 1

RECURSIVE ParseUint(_)
ParseUint(s) ==
    IF s = <<>> THEN 0
    ELSE 10 * ParseUint(SubSeq(s, 1, Len(s) - 1)) + DigitVal(s[Len(s)])

ParseInt(s) ==
    LET neg == s # <<>> /\ s[1] = "-"
        signed == s # <<>> /\ s[1] \in {"-", "+"}
        body == IF signed THEN Tail(s) ELSE s
        ok == body # <<>> /\ \A i \in 1..Len(body) : IsDigit(body[i])
    IN IF ok
       THEN [err |-> FALSE, val |-> IF neg THEN 0 - ParseUint(body) ELSE ParseUint(body)]
       ELSE [err |-> TRUE, val |-> 0]

\* ---- the guard (sync.RWMutex) ----
\* Between two steps the guard is "unlocked" unless a handler left without
\* unlocking: "locked" after a Lock() with no Unlock(), "rlocked" after an
\* RLock() with no RUnlock() (one leaked reader or several: no writer gets in).
CanLock == kvLock = "unlocked"

CanRLock == kvLock # "locked"

\* ---- maps ----
Delete(m, k) == [x \in DOMAIN m \ {k} |-> m[x]]

Put(m, k, v) == [x \in DOMAIN m \cup {k} |-> IF x = k THEN v ELSE m[x]]

\* ---- what the last step reported ----
\* op names the handler (or timer step) that ran last; the other fields are
\* its response: the HTTP status ("panic" when the handler panicked and
\* net/http closed the connection) and the fields of types.AcquireReturn,
\* ReleaseReturn, SetReturn, GetReturn, or the key list of /kv/keys.
NoRet ==
    [op |-> "none", status |-> "200", Success |-> FALSE, SessionID |-> NoSessionId,
     Key |-> NoKey, Value |-> "", list |-> {}]

\* ---- time.Timer ----
\* timers maps the handle of every live timer to the session it was armed for
\* (the *session the closure captured: its ID and Key) and to whether it is
\* still "pending" or has "fired" (its goroutine runs, or waits for the guard).
\* A stopped timer and a timer whose callback returned can do nothing any
\* more: they leave the map.  Handles are never reused (nTimers counts them).
Stop(ts, t) ==
    IF t \in DOMAIN ts /\ ts[t].state = "pending" THEN Delete(ts, t) ELSE ts

\* rearm records the branch startTimer took: s.Timer != nil, a renewal.
AfterFunc(ts, s) ==
    Put(ts, nTimers + 1,
        [ID |-> s.ID, Key |-> s.Key, state |-> "pending", rearm |-> s.Timer # 0])

\* startTimer: the timers after stopping the session's timer and arming a new one
startTimer(s) == AfterFunc(Stop(timers, s.Timer), s)

Init ==
    /\ kvs = <<>>
    /\ sessions = <<>>
    /\ timers = <<>>
    /\ nTimers = 0
    /\ kvLock = "unlocked"
    /\ cuid = 1
    /\ released = {}
    /\ ret = NoRet

\* ---- time.AfterFunc's callback: the timer fires and its goroutine starts ----
TimerFire(t) ==
    /\ timers[t].state = "pending"
    /\ timers' = [timers EXCEPT ![t].state = "fired"]
    /\ ret' = [NoRet EXCEPT !.op = "fire"]
    /\ UNCHANGED <<kvs, sessions, nTimers, kvLock, cuid, released>>

\* ---- the callback body: lock.Lock(); delete(kvs, s.Key); delete(sessions, s.ID) ----
Expire(t) ==
    /\ timers[t].state = "fired"
    /\ CanLock
    /\ kvs' = Delete(kvs, timers[t].Key)
    /\ sessions' = Delete(sessions, timers[t].ID)
    /\ released' = released \ {timers[t].ID}
    /\ timers' = Delete(timers, t)
    /\ ret' = [NoRet EXCEPT !.op = "expire"]
    /\ UNCHANGED <<nTimers, kvLock, cuid>>

\* Renew without the return after http.Error: the ParseInt error is reported
\* and the timer is rearmed all the same.
RenewWithoutReturn(sessionId, duration) ==
    LET interval == ParseInt(duration)
        in == [NoRet EXCEPT !.op = "renew", !.status = IF interval.err THEN "500" ELSE "200"]
    IN /\ CanLock
       /\ ret' = in
       /\ IF sessionId \in DOMAIN sessions
          THEN /\ nTimers < MaxTimers
               /\ timers' = startTimer(sessions[sessionId])
               /\ nTimers' = nTimers + 1
               /\ sessions' = [sessions EXCEPT ![sessionId].Timer = nTimers + 1]
               /\ UNCHANGED <<kvs, kvLock, cuid, released>>
          ELSE UNCHANGED <<kvs, sessions, timers, nTimers, kvLock, cuid, released>>

\* ---- POST /session/renew/{sessionId}/{duration} ----
Renew(sessionId, duration) ==
    LET interval == ParseInt(duration)
        in == [NoRet EXCEPT !.op = "renew"]
    IN /\ CanLock
       /\ IF interval.err
          THEN /\ ret' = [in EXCEPT !.status = "500"]
               /\ UNCHANGED <<kvs, sessions, timers, nTimers, kvLock, cuid, released>>
          ELSE IF sessionId \in DOMAIN sessions
          THEN /\ nTimers < MaxTimers
               /\ timers' = startTimer(sessions[sessionId])
               /\ nTimers' = nTimers + 1
               /\ sessions' = [sessions EXCEPT ![sessionId].Timer = nTimers + 1]
               /\ ret' = in
               /\ UNCHANGED <<kvs, kvLock, cuid, released>>
          ELSE /\ ret' = in
               /\ UNCHANGED <<kvs, sessions, timers, nTimers, kvLock, cuid, released>>

\* Destroy without the lookup test: session.Timer.Stop() on the nil session
\* of an unknown id panics (the deferred Unlock still runs).
DestroyNilSession(sessionId) ==
    /\ CanLock
    /\ IF sessionId \in DOMAIN sessions
       THEN /\ ret' = [NoRet EXCEPT !.op = "destroy"]
            /\ timers' = Stop(timers, sessions[sessionId].Timer)
            /\ kvs' = Delete(kvs, sessions[sessionId].Key)
            /\ sessions' = Delete(sessions, sessionId)
            /\ released' = released \ {sessionId}
            /\ UNCHANGED <<nTimers, kvLock, cuid>>
       ELSE /\ ret' = [NoRet EXCEPT !.op = "destroy", !.status = "panic"]
            /\ UNCHANGED <<kvs, sessions, timers, nTimers, kvLock, cuid, released>>

\* Destroy that unlocks the session's key instead of deleting its entry.
DestroyUnlocksOnly(sessionId) ==
    /\ CanLock
    /\ ret' = [NoRet EXCEPT !.op = "destroy"]
    /\ IF sessionId \in DOMAIN sessions
       THEN /\ timers' = Stop(timers, sessions[sessionId].Timer)
            /\ kvs' = IF sessions[sessionId].Key \in DOMAIN kvs
                      THEN [kvs EXCEPT ![sessions[sessionId].Key].IsLocked = FALSE]
                      ELSE kvs
            /\ sessions' = Delete(sessions, sessionId)
            /\ released' = released \ {sessionId}
            /\ UNCHANGED <<nTimers, kvLock, cuid>>
       ELSE UNCHANGED <<kvs, sessions, timers, nTimers, kvLock, cuid, released>>

\* ---- POST /session/destroy/{sessionId} ----
Destroy(sessionId) ==
    /\ CanLock
    /\ ret' = [NoRet EXCEPT !.op = "destroy"]
    /\ IF sessionId \in DOMAIN sessions
       THEN /\ timers' = Stop(timers, sessions[sessionId].Timer)
            /\ kvs' = Delete(kvs, sessions[sessionId].Key)
            /\ sessions' = Delete(sessions, sessionId)
            /\ released' = released \ {sessionId}
            /\ UNCHANGED <<nTimers, kvLock, cuid>>
       ELSE UNCHANGED <<kvs, sessions, timers, nTimers, kvLock, cuid, released>>

\* ---- GET /kv/keys?prefix= ----
\* key[:len(prefix)] panics when the key is shorter than the prefix; the
\* handler has no deferred RUnlock, so the read lock stays held.
ListKeys(prefix) ==
    LET in == [NoRet EXCEPT !.op = "keys"]
        panics == prefix # <<>> /\ \E key \in DOMAIN kvs : Len(key) < Len(prefix)
    IN /\ CanRLock
       /\ IF panics
          THEN /\ kvLock' = "rlocked"
               /\ ret' = [in EXCEPT !.status = "panic"]
          ELSE /\ kvLock' = kvLock
               /\ ret' = [in EXCEPT !.list =
                     {key \in DOMAIN kvs :
                         prefix = <<>> \/ SubSeq(key, 1, Len(prefix)) = prefix}]
       /\ UNCHANGED <<kvs, sessions, timers, nTimers, cuid, released>>

\* Acquire that stores the supplied value on every success.
AcquireOverwrites(key, duration, value) ==
    LET interval == ParseInt(duration)
        in == [NoRet EXCEPT !.op = "acquire"]
        SessionID == cuid
        created == IF key \in DOMAIN kvs THEN kvs
                   ELSE Put(kvs, key, [Value |-> value, IsLocked |-> FALSE])
        s == [ID |-> SessionID, Key |-> key, Timer |-> 0]
    IN /\ CanLock
       /\ IF interval.err
          THEN /\ ret' = [in EXCEPT !.status = "500"]
               /\ kvLock' = "locked"
               /\ UNCHANGED <<kvs, sessions, timers, nTimers, cuid, released>>
          ELSE /\ cuid <= MaxIds
               /\ cuid' = cuid + 1
               /\ IF ~created[key].IsLocked
                  THEN /\ nTimers < MaxTimers
                       /\ kvs' = [created EXCEPT ![key] = [Value |-> value, IsLocked |-> TRUE]]
                       /\ timers' = startTimer(s)
                       /\ nTimers' = nTimers + 1
                       /\ sessions' = Put(sessions, SessionID,
                                          [s EXCEPT !.Timer = nTimers + 1])
                       /\ ret' = [in EXCEPT !.SessionID = SessionID, !.Success = TRUE]
                  ELSE /\ kvs' = created
                       /\ ret' = [in EXCEPT !.SessionID = SessionID]
                       /\ UNCHANGED <<sessions, timers, nTimers>>
               /\ UNCHANGED <<kvLock, released>>

\* Acquire that registers the session before it looks at the lock flag.
AcquireFailedRegisters(key, duration, value) ==
    LET interval == ParseInt(duration)
        in == [NoRet EXCEPT !.op = "acquire"]
        SessionID == cuid
        created == IF key \in DOMAIN kvs THEN kvs
                   ELSE Put(kvs, key, [Value |-> value, IsLocked |-> FALSE])
        s == [ID |-> SessionID, Key |-> key, Timer |-> 0]
    IN /\ CanLock
       /\ IF interval.err
          THEN /\ ret' = [in EXCEPT !.status = "500"]
               /\ kvLock' = "locked"
               /\ UNCHANGED <<kvs, sessions, timers, nTimers, cuid, released>>
          ELSE /\ cuid <= MaxIds
               /\ cuid' = cuid + 1
               /\ IF ~created[key].IsLocked
                  THEN /\ nTimers < MaxTimers
                       /\ kvs' = [created EXCEPT ![key].IsLocked = TRUE]
                       /\ timers' = startTimer(s)
                       /\ nTimers' = nTimers + 1
                       /\ sessions' = Put(sessions, SessionID,
                                          [s EXCEPT !.Timer = nTimers + 1])
                       /\ ret' = [in EXCEPT !.SessionID = SessionID, !.Success = TRUE]
                  ELSE /\ kvs' = created
                       /\ sessions' = Put(sessions, SessionID, s)
                       /\ ret' = [in EXCEPT !.SessionID = SessionID]
                       /\ UNCHANGED <<timers, nTimers>>
               /\ UNCHANGED <<kvLock, released>>

\* ---- POST /kv/acquire/{key}/{duration}?value= ----
\* On a ParseInt error the handler returns without kvLock.Unlock().
Acquire(key, duration, value) ==
    LET interval == ParseInt(duration)
        in == [NoRet EXCEPT !.op = "acquire"]
        SessionID == cuid
        created == IF key \in DOMAIN kvs THEN kvs
                   ELSE Put(kvs, key, [Value |-> value, IsLocked |-> FALSE])
        s == [ID |-> SessionID, Key |-> key, Timer |-> 0]
    IN /\ CanLock
       /\ IF interval.err
          THEN /\ ret' = [in EXCEPT !.status = "500"]
               /\ kvLock' = "locked"
               /\ UNCHANGED <<kvs, sessions, timers, nTimers, cuid, released>>
          ELSE /\ cuid <= MaxIds
               /\ cuid' = cuid + 1
               /\ IF ~created[key].IsLocked
                  THEN /\ nTimers < MaxTimers
                       /\ kvs' = [created EXCEPT ![key].IsLocked = TRUE]
                       /\ timers' = startTimer(s)
                       /\ nTimers' = nTimers + 1
                       /\ sessions' = Put(sessions, SessionID,
                                          [s EXCEPT !.Timer = nTimers + 1])
                       /\ ret' = [in EXCEPT !.SessionID = SessionID, !.Success = TRUE]
                  ELSE /\ kvs' = created
                       /\ ret' = [in EXCEPT !.SessionID = SessionID]
                       /\ UNCHANGED <<sessions, timers, nTimers>>
               /\ UNCHANGED <<kvLock, released>>

\* Release that does not compare the session's key with the requested key.
ReleaseIgnoresKey(key, sessionId) ==
    LET in == [NoRet EXCEPT !.op = "release"]
    IN /\ CanLock
       /\ IF /\ key \in DOMAIN kvs
             /\ sessionId \in DOMAIN sessions
          THEN /\ kvs' = [kvs EXCEPT ![key].IsLocked = FALSE]
               /\ released' = released \cup {sessionId}
               /\ ret' = [in EXCEPT !.Success = TRUE]
          ELSE /\ ret' = in
               /\ UNCHANGED <<kvs, released>>
       /\ UNCHANGED <<sessions, timers, nTimers, kvLock, cuid>>

\* Release that also cancels the session's timer.
ReleaseStopsTimer(key, sessionId) ==
    LET in == [NoRet EXCEPT !.op = "release"]
    IN /\ CanLock
       /\ IF /\ key \in DOMAIN kvs
             /\ sessionId \in DOMAIN sessions
             /\ sessions[sessionId].Key = key
          THEN /\ kvs' = [kvs EXCEPT ![key].IsLocked = FALSE]
               /\ timers' = Stop(timers, sessions[sessionId].Timer)
               /\ released' = released \cup {sessionId}
               /\ ret' = [in EXCEPT !.Success = TRUE]
          ELSE /\ ret' = in
               /\ UNCHANGED <<kvs, timers, released>>
       /\ UNCHANGED <<sessions, nTimers, kvLock, cuid>>

\* Release that deletes the entry instead of clearing its flag.
ReleaseDeletesEntry(key, sessionId) ==
    LET in == [NoRet EXCEPT !.op = "release"]
    IN /\ CanLock
       /\ IF /\ key \in DOMAIN kvs
             /\ sessionId \in DOMAIN sessions
             /\ sessions[sessionId].Key = key
          THEN /\ kvs' = Delete(kvs, key)
               /\ released' = released \cup {sessionId}
               /\ ret' = [in EXCEPT !.Success = TRUE]
          ELSE /\ ret' = in
               /\ UNCHANGED <<kvs, released>>
       /\ UNCHANGED <<sessions, timers, nTimers, kvLock, cuid>>

\* ---- POST /kv/release/{key}/{sessionId} ----
Release(key, sessionId) ==
    LET in == [NoRet EXCEPT !.op = "release"]
    IN /\ CanLock
       /\ IF /\ key \in DOMAIN kvs
             /\ sessionId \in DOMAIN sessions
             /\ sessions[sessionId].Key = key
          THEN /\ kvs' = [kvs EXCEPT ![key].IsLocked = FALSE]
               /\ released' = released \cup {sessionId}
               /\ ret' = [in EXCEPT !.Success = TRUE]
          ELSE /\ ret' = in
               /\ UNCHANGED <<kvs, released>>
       /\ UNCHANGED <<sessions, timers, nTimers, kvLock, cuid>>

\* Set that lets a request without a session id overwrite an existing entry.
SetOverwritesWithoutSession(key, sessionId, value) ==
    LET in == [NoRet EXCEPT !.op = "set"]
    IN /\ CanLock
       /\ IF sessionId # NoSessionId
          THEN IF sessionId \in DOMAIN sessions /\ sessions[sessionId].Key = key
               THEN IF key \in DOMAIN kvs
                    THEN /\ kvs' = [kvs EXCEPT ![key].Value = value]
                         /\ ret' = [in EXCEPT !.Success = TRUE]
                         /\ UNCHANGED kvLock
                    ELSE /\ kvLock' = "locked"
                         /\ ret' = [in EXCEPT !.status = "panic"]
                         /\ UNCHANGED kvs
               ELSE /\ ret' = in
                    /\ UNCHANGED <<kvs, kvLock>>
          ELSE /\ kvs' = Put(kvs, key, [Value |-> value, IsLocked |-> FALSE])
               /\ ret' = [in EXCEPT !.Success = TRUE]
               /\ UNCHANGED kvLock
       /\ UNCHANGED <<sessions, timers, nTimers, cuid, released>>

\* ---- POST /kv/set/{key}?sessionId=&value= ----
\* kvs[key].Value = value dereferences a nil entry when the session's key has
\* no table entry; the handler has no deferred Unlock, so the guard stays held.
Set(key, sessionId, value) ==
    LET in == [NoRet EXCEPT !.op = "set"]
    IN /\ CanLock
       /\ IF sessionId # NoSessionId
          THEN IF sessionId \in DOMAIN sessions /\ sessions[sessionId].Key = key
               THEN IF key \in DOMAIN kvs
                    THEN /\ kvs' = [kvs EXCEPT ![key].Value = value]
                         /\ ret' = [in EXCEPT !.Success = TRUE]
                         /\ UNCHANGED kvLock
                    ELSE /\ kvLock' = "locked"
                         /\ ret' = [in EXCEPT !.status = "panic"]
                         /\ UNCHANGED kvs
               ELSE /\ ret' = in
                    /\ UNCHANGED <<kvs, kvLock>>
          ELSE IF key \notin DOMAIN kvs
               THEN /\ kvs' = Put(kvs, key, [Value |-> value, IsLocked |-> FALSE])
                    /\ ret' = [in EXCEPT !.Success = TRUE]
                    /\ UNCHANGED kvLock
               ELSE /\ ret' = in
                    /\ UNCHANGED <<kvs, kvLock>>
       /\ UNCHANGED <<sessions, timers, nTimers, cuid, released>>

\* ---- GET /kv/get/{key} ----
Get(key) ==
    LET in == [NoRet EXCEPT !.op = "get"]
    IN /\ CanRLock
       /\ ret' = IF key \in DOMAIN kvs
                 THEN [in EXCEPT !.Success = TRUE, !.Key = key, !.Value = kvs[key].Value]
                 ELSE in
       /\ UNCHANGED <<kvs, sessions, timers, nTimers, kvLock, cuid, released>>

Next ==
    \/ \E t \in DOMAIN timers : TimerFire(t)
    \/ \E t \in DOMAIN timers : Expire(t)
    \/ \E sessionId \in SessionIds, duration \in Durations : Renew(sessionId, duration)
    \/ \E sessionId \in SessionIds : Destroy(sessionId)
    \/ \E prefix \in Prefixes : ListKeys(prefix)
    \/ \E key \in Keys, duration \in Durations, value \in Values :
           Acquire(key, duration, value)
    \/ \E key \in Keys, sessionId \in SessionIds : Release(key, sessionId)
    \/ \E key \in Keys, sessionId \in SessionIds \cup {NoSessionId}, value \in Values :
           Set(key, sessionId, value)
    \/ \E key \in Keys : Get(key)

Spec == Init /\ [][Next]_vars

\* The Go runtime runs a fired timer's goroutine, and sync.RWMutex hands the
\* guard to a waiting Lock() once it is free.
FairSpec ==
    /\ Spec
    /\ \A t \in 1..MaxTimers : WF_vars(t \in DOMAIN timers /\ TimerFire(t))
    /\ \A t \in 1..MaxTimers : WF_vars(t \in DOMAIN timers /\ Expire(t))

TypeOK ==
    /\ DOMAIN kvs \subseteq Keys
    /\ DOMAIN sessions \subseteq 1..MaxIds
    /\ DOMAIN timers \subseteq 1..nTimers
    /\ nTimers \in 0..MaxTimers
    /\ cuid \in 1..MaxIds + 1
    /\ kvLock \in {"unlocked", "rlocked", "locked"}
    /\ released \subseteq DOMAIN sessions

\* ---- notions the claims use ----
Registered(s) == s \in DOMAIN sessions

\* s holds k: its acquire on k succeeded and it has neither released k,
\* expired, nor been destroyed
Holds(s, k) == Registered(s) /\ sessions[s].Key = k /\ s \notin released

SessionsOf(k) == {s \in DOMAIN sessions : sessions[s].Key = k}

GuardFree == kvLock = "unlocked"

\* C1: mutual exclusion -- an acquire on k never succeeds while some session
\* that acquired k has not yet released k, expired or been destroyed.
C1_MutualExclusion ==
    [][\A key \in Keys, duration \in Durations, value \in Values :
          (Acquire(key, duration, value) /\ ret'.Success)
              => ~ \E s \in DOMAIN sessions : Holds(s, key)]_vars

\* C2: invariant 1 -- whenever the guard is not held, every key whose entry
\* is locked has exactly one registered session leasing it.
C2_LockedKeyHasOneSession ==
    GuardFree =>
        \A k \in DOMAIN kvs : kvs[k].IsLocked => Cardinality(SessionsOf(k)) = 1

\* C3: invariant 2 -- whenever the guard is not held, every registered
\* session's key has a table entry and that entry is locked.
C3_SessionKeyIsLocked ==
    GuardFree =>
        \A s \in DOMAIN sessions :
            sessions[s].Key \in DOMAIN kvs /\ kvs[sessions[s].Key].IsLocked

\* C4: lease expiry cleanup -- under fair scheduling of the timers and of the
\* guard, every registered session is eventually removed by its expiry
\* transition (or a destroy), leaving no table entry for its key.  (The model
\* bounds the number of renewals, so no session is renewed for ever.)
C4_LeaseExpiryCleanup ==
    \A s \in 1..MaxIds, k \in Keys :
        (Registered(s) /\ sessions[s].Key = k)
            ~> (~Registered(s) /\ k \notin DOMAIN kvs)

\* the live timers armed for session s
TimersOf(s) == {t \in DOMAIN timers : timers[t].ID = s}

\* s was renewed before any of its timers fired: its one live timer is the
\* one the renewal armed, and it is still pending
RenewedInTime(s) ==
    /\ Registered(s)
    /\ TimersOf(s) = {sessions[s].Timer}
    /\ timers[sessions[s].Timer].state = "pending"
    /\ timers[sessions[s].Timer].rearm

\* C5: renew extends the lease -- a renew that finds the session's timer
\* still pending stops it for good (the replaced timer never runs its expiry
\* transition), and from then on the session stays registered and its key's
\* entry stays present until the new timer fires or the session is destroyed.
C5_RenewExtendsLease ==
    [][/\ \A sessionId \in DOMAIN sessions, duration \in Durations :
             ( /\ Renew(sessionId, duration)
               /\ ~ParseInt(duration).err
               /\ sessions[sessionId].Timer \in DOMAIN timers
               /\ timers[sessions[sessionId].Timer].state = "pending" )
                 => sessions[sessionId].Timer \notin DOMAIN timers'
       /\ \A t \in 1..nTimers : t \notin DOMAIN timers => t \notin DOMAIN timers'
       /\ \A s \in DOMAIN sessions :
             ( /\ RenewedInTime(s)
               /\ s \notin released
               /\ sessions[s].Key \in DOMAIN kvs
               /\ ~Destroy(s) )
                 => /\ s \in DOMAIN sessions'
                    /\ sessions[s].Key \in DOMAIN kvs']_vars

\* C6: a stale expiry is harmless to others -- the expiry callback of a
\* session s1 that was already destroyed, or whose key was released, never
\* deletes a table entry locked by a different registered session, and never
\* deletes a session other than s1.
C6_StaleExpiryHarmless ==
    [][\A t \in DOMAIN timers :
          (Expire(t) /\ (~Registered(timers[t].ID) \/ timers[t].ID \in released))
              => /\ ~ \E s2 \in DOMAIN sessions \ {timers[t].ID} :
                        /\ Holds(s2, timers[t].Key)
                        /\ timers[t].Key \in DOMAIN kvs
                        /\ kvs[timers[t].Key].IsLocked
                 /\ DOMAIN sessions \ DOMAIN sessions' \subseteq {timers[t].ID}]_vars

\* C7: authorized set only by the owner -- while s1 holds the lock on k, a set
\* on k under any other session id fails and changes nothing, and a set on k
\* under s1 succeeds and stores the value.
C7_SetOnlyByOwner ==
    [][\A k \in Keys, s1 \in DOMAIN sessions, v2 \in Values :
          Holds(s1, k) =>
              /\ \A s2 \in SessionIds \ {s1} :
                     Set(k, s2, v2) => (~ret'.Success /\ kvs' = kvs)
              /\ Set(k, s1, v2) =>
                     (ret'.Success /\ k \in DOMAIN kvs' /\ kvs'[k].Value = v2)]_vars

\* C8: every handler releases the guard on every path -- after any operation
\* the guard is free.
C8_GuardAlwaysReleased == kvLock = "unlocked"

\* the durations strconv.ParseInt rejects
Malformed == {duration \in Durations : ParseInt(duration).err}

\* C9: malformed input is rejected without effect -- an acquire or a renew
\* whose duration does not parse reports an error (no such call ends in
\* anything but status 500), and a call that reports it leaves the key table,
\* the session registry and every armed timer exactly as they were.
C9_MalformedInputNoEffect ==
    [][/\ (ret'.op \in {"acquire", "renew"} /\ ret'.status = "500")
             => UNCHANGED <<kvs, sessions, timers, nTimers>>
       /\ (ret'.op = "acquire" /\ ret'.status # "500")
             => \A key \in Keys, duration \in Malformed, value \in Values :
                    ~Acquire(key, duration, value)
       /\ (ret'.op = "renew" /\ ret'.status # "500")
             => \A sessionId \in SessionIds, duration \in Malformed :
                    ~Renew(sessionId, duration)]_vars

\* a renew with a malformed duration was rejected while a lease was armed
C9_Witness ==
    /\ ret.op = "renew"
    /\ ret.status = "500"
    /\ \E s \in DOMAIN sessions : sessions[s].Timer \in DOMAIN timers

\* C10: release does not delete the key -- a successful release leaves the
\* key's entry in place with the same value and IsLocked = FALSE, and an
\* acquire (with a well-formed duration) on a key whose entry is unlocked
\* never fails: it locks the entry and keeps its value.
C10_ReleaseKeepsKey ==
    [][/\ (ret'.op = "release" /\ ret'.Success)
             => \A key \in Keys, sessionId \in DOMAIN sessions :
                    Release(key, sessionId)
                        => /\ key \in DOMAIN kvs'
                           /\ kvs'[key] = [Value |-> kvs[key].Value, IsLocked |-> FALSE]
       /\ (ret'.op = "acquire" /\ ret'.status = "200" /\ ~ret'.Success)
             => \A key \in DOMAIN kvs, duration \in Durations, value \in Values :
                    Acquire(key, duration, value) => kvs[key].IsLocked
       /\ (ret'.op = "acquire" /\ ret'.Success)
             => \A key \in DOMAIN kvs :
                    (~kvs[key].IsLocked /\ kvs'[key].IsLocked)
                        => kvs'[key].Value = kvs[key].Value]_vars

\* an acquire has just succeeded on a key that an earlier session released
C10_Witness ==
    /\ ret.op = "acquire"
    /\ ret.Success
    /\ \E s \in released :
           /\ s # ret.SessionID
           /\ sessions[s].Key = sessions[ret.SessionID].Key

\* C11: creation-only unauthenticated set -- a set without a session id on a
\* key with no entry succeeds and creates the entry with the given value,
\* unlocked; on a key that has an entry (locked or not) it fails and leaves
\* the table as it was.
C11_CreationOnlySet ==
    [][(ret'.op = "set")
          => \A key \in Keys, value \in Values :
                 Set(key, NoSessionId, value)
                     => IF key \notin DOMAIN kvs
                        THEN /\ ret'.Success
                             /\ key \in DOMAIN kvs'
                             /\ kvs'[key] = [Value |-> value, IsLocked |-> FALSE]
                        ELSE /\ ~ret'.Success
                             /\ kvs' = kvs]_vars

\* a set has succeeded before any session was ever created: it was one
\* without a session id, and it created an unlocked entry
C11_Witness ==
    /\ ret.op = "set"
    /\ ret.Success
    /\ cuid = 1
    /\ \E k \in DOMAIN kvs : ~kvs[k].IsLocked

\* key starts with prefix
HasPrefix(key, prefix) ==
    Len(key) >= Len(prefix) /\ SubSeq(key, 1, Len(prefix)) = prefix

\* C12: prefix listing -- list-keys completes without crashing and returns
\* exactly the stored keys that start with the prefix; a stored key shorter
\* than the prefix is a non-match.
C12_PrefixListing ==
    [][(ret'.op = "keys")
          => \A prefix \in Prefixes :
                 ListKeys(prefix)
                     => /\ ret'.status = "200"
                        /\ ret'.list = {key \in DOMAIN kvs : HasPrefix(key, prefix)}]_vars

\* C13: a failed acquire has no effect -- an acquire on a key whose entry is
\* locked returns success=false (it never succeeds), registers no session
\* under the id it returns, arms no timer, and leaves the key table and the
\* session registry unchanged.
C13_FailedAcquireNoEffect ==
    [][/\ (ret'.op = "acquire" /\ ret'.status = "200" /\ ~ret'.Success)
             => /\ UNCHANGED <<kvs, sessions, timers, nTimers>>
                /\ ret'.SessionID # NoSessionId
                /\ ret'.SessionID \notin DOMAIN sessions'
       /\ (ret'.op = "acquire" /\ ret'.Success)
             => \A key \in DOMAIN kvs, duration \in Durations, value \in Values :
                    Acquire(key, duration, value) => ~kvs[key].IsLocked]_vars

\* an acquire has just failed, on a locked key, and returned a fresh id
C13_Witness ==
    /\ ret.op = "acquire"
    /\ ret.status = "200"
    /\ ~ret.Success
    /\ ret.SessionID = cuid - 1
    /\ \E k \in DOMAIN kvs : kvs[k].IsLocked

\* C14: destroy removes key and session together -- destroy of a registered
\* session leaves no entry for its key and the session unregistered; every
\* other key entry and every other session is unchanged.
C14_DestroyRemovesBoth ==
    [][(ret'.op = "destroy")
          => \A sid \in DOMAIN sessions :
                 Destroy(sid)
                     => /\ sessions[sid].Key \notin DOMAIN kvs'
                        /\ sid \notin DOMAIN sessions'
                        /\ DOMAIN kvs' = DOMAIN kvs \ {sessions[sid].Key}
                        /\ \A k \in DOMAIN kvs' : kvs'[k] = kvs[k]
                        /\ DOMAIN sessions' = DOMAIN sessions \ {sid}
                        /\ \A s \in DOMAIN sessions' : sessions'[s] = sessions[s]]_vars

\* of the two sessions ever created (one timer each) one was destroyed after
\* its timer had fired: it and its key's entry are gone, the other session
\* and the other key's entry are still there
C14_Witness ==
    /\ ret.op = "destroy"
    /\ cuid = 3
    /\ nTimers = 2
    /\ \E t \in DOMAIN timers :
           /\ timers[t].state = "fired"
           /\ timers[t].ID \notin DOMAIN sessions
           /\ timers[t].Key \notin DOMAIN kvs
           /\ \E s \in DOMAIN sessions :
                  /\ sessions[s].Key # timers[t].Key
                  /\ sessions[s].Key \in DOMAIN kvs

\* C15: an unknown session is a silent no-op -- renew(sid, d) and
\* destroy(sid) with a session id that is not registered leave the key
\* table, the session registry and every armed timer unchanged, and report
\* no error (for renew: whenever d is a duration, i.e. parses as an integer).
C15_UnknownSessionNoOp ==
    [][/\ (ret'.op = "renew")
             => \A sessionId \in SessionIds \ DOMAIN sessions, duration \in Durations :
                    Renew(sessionId, duration)
                        => /\ UNCHANGED <<kvs, sessions, timers, nTimers>>
                           /\ ~ParseInt(duration).err => ret'.status = "200"
       /\ (ret'.op = "destroy")
             => \A sessionId \in SessionIds \ DOMAIN sessions :
                    Destroy(sessionId)
                        => /\ UNCHANGED <<kvs, sessions, timers, nTimers>>
                           /\ ret'.status = "200"]_vars

\* a renew has just returned without error while no session is registered,
\* after the one session ever created had expired or been destroyed
C15_Witness ==
    /\ ret.op = "renew"
    /\ ret.status = "200"
    /\ sessions = << >>
    /\ cuid = 2
    /\ nTimers = 1

\* C16: release success condition -- release(key, sessionId) returns
\* success=true exactly when the key has a table entry, the session id is
\* registered and that session's key is the requested key; otherwise it
\* returns success=false and changes nothing.
C16_ReleaseSuccessCondition ==
    [][(ret'.op = "release")
          => \A key \in Keys, sessionId \in SessionIds :
                 Release(key, sessionId)
                     => /\ ret'.status = "200"
                        /\ ret'.Success
                              <=> /\ key \in DOMAIN kvs
                                  /\ Registered(sessionId)
                                  /\ sessions[sessionId].Key = key
                        /\ ~ret'.Success
                              => UNCHANGED <<kvs, sessions, timers, nTimers, kvLock>>]_vars

\* a release has just failed although a session is registered and both keys
\* have entries, one of them locked
C16_Witness ==
    /\ ret.op = "release"
    /\ ~ret.Success
    /\ sessions # << >>
    /\ DOMAIN kvs = Keys
    /\ \E k \in Keys : kvs[k].IsLocked

\* C17: release clears only the lock flag -- a successful release(k, s)
\* changes nothing but IsLocked of k: s stays registered with the same key,
\* its timer is neither cancelled nor otherwise touched, k keeps its value,
\* and every other entry is unchanged.
C17_ReleaseClearsOnlyFlag ==
    [][(ret'.op = "release" /\ ret'.Success)
          => \A key \in DOMAIN kvs, sessionId \in DOMAIN sessions :
                 Release(key, sessionId)
                     => /\ sessions' = sessions
                        /\ timers' = timers
                        /\ nTimers' = nTimers
                        /\ kvLock' = kvLock
                        /\ kvs' = [kvs EXCEPT ![key].IsLocked = FALSE]]_vars

\* a release has just succeeded: the releasing session is still registered
\* and its timer is still pending
C17_Witness ==
    /\ ret.op = "release"
    /\ ret.Success
    /\ \E s \in released :
           /\ Registered(s)
           /\ sessions[s].Timer \in DOMAIN timers
           /\ timers[sessions[s].Timer].state = "pending"
           /\ ~kvs[sessions[s].Key].IsLocked

\* C18: an authorized set never meets a missing entry -- in every reachable
\* state every registered session s has a table entry for s.Key, and no set
\* faults on a missing entry.
C18_SessionKeyHasEntry ==
    /\ \A s \in DOMAIN sessions : sessions[s].Key \in DOMAIN kvs
    /\ ~(ret.op = "set" /\ ret.status = "panic")

\* the timer the session's Timer field points to is live: armed and not
\* stopped, or fired with its callback still to take the guard
HasLiveTimer(s) ==
    /\ sessions[s].Timer \in DOMAIN timers
    /\ timers[sessions[s].Timer].ID = s
    /\ timers[sessions[s].Timer].state \in {"pending", "fired"}

RegisteredHasLiveTimer ==
    GuardFree => \A s \in DOMAIN sessions : HasLiveTimer(s)

\* C19: no session leaks -- whenever the guard is not held every registered
\* session has a live expiry timer (armed and not cancelled, or fired and
\* waiting for the guard), and so every registered session is eventually
\* removed (the bound on armed timers rules out renewing forever).
C19_NoSessionLeak ==
    /\ []RegisteredHasLiveTimer
    /\ \A s \in 1..MaxIds : Registered(s) ~> ~Registered(s)

\* C20: acquire never overwrites an existing value -- a successful acquire
\* on a key that already has an entry leaves the entry's value as it was;
\* the supplied value is stored only when the key had no entry.
C20_AcquireKeepsValue ==
    [][(ret'.op = "acquire" /\ ret'.Success)
          => \A key \in Keys, duration \in Durations, value \in Values :
                 Acquire(key, duration, value)
                     => /\ key \in DOMAIN kvs'
                        /\ kvs'[key].Value = IF key \in DOMAIN kvs
                                             THEN kvs[key].Value
                                             ELSE value
                        /\ \A k \in DOMAIN kvs \ {key} :
                               k \in DOMAIN kvs' /\ kvs'[k] = kvs[k]]_vars

\* the second acquire has just succeeded on the key the first session
\* released: both timers are live, so the entry was there all along
C20_Witness ==
    /\ ret.op = "acquire"
    /\ ret.Success
    /\ ret.SessionID = 2
    /\ cuid = 3
    /\ nTimers = 2
    /\ DOMAIN timers = {1, 2}
    /\ DOMAIN sessions = {1, 2}
    /\ sessions[1].Key = sessions[2].Key
    /\ 1 \in released

====
